---- MODULE Spec2Model ----
(***************************************************************************)
(* Model of testkit/testkit.go: the TestKit harness that drives a SQL      *)
(* session.  The session, the parser and the record sets are collaborators *)
(* the harness only calls: every outcome of such a call (an error, a nil   *)
(* or non-nil record set, a statement id) is an input of the action, and   *)
(* the calls a harness operation makes are recorded, in order, in the      *)
(* trace `last.calls`.                                                     *)
(***************************************************************************)
EXTENDS Integers, Sequences, FiniteSets, TLC

VARIABLES
    idGen,      \* testKitIDGenerator (testkit.go:40)
    kits,       \* the harness instances NewTestKit has returned
    nSess,      \* number of session objects created so far
    sessConn,   \* connection id of each session object
    tkSession,  \* TestKit.session of each harness instance
    viaSet,     \* the instance's current session was installed by SetSession
    assigned,   \* the values testKitIDGenerator.Inc() handed out, in call order
    last,       \* the last harness operation: its outcome and its session calls
    procs       \* the goroutines calling the harness concurrently

vars == <<idGen, kits, nSess, sessConn, tkSession, viaSet, assigned, last, procs>>

(***************************************************************************)
(* Bounds of the model.                                                    *)
(***************************************************************************)
MaxKits == 2      \* harness instances
MaxSess == 3      \* session objects ever created
MaxIDs == 3       \* calls of testKitIDGenerator.Inc()
MaxStmts == 2     \* statements the parser returns for one SQL text
MaxStmtID == 2    \* statement ids PrepareStmt hands out
MaxWarns == 1     \* warnings the parser adds for one SQL text
MaxRows == 2      \* rows of a record set

Kits == 1..MaxKits
Nil == 0          \* a nil interface value (session, record set)

(***************************************************************************)
(* Errors.  An error value is its root cause plus whether a stack has been *)
(* attached on top of it.  The cause is a *terror.Error with a code, or    *)
(* an error of another type.                                               *)
(***************************************************************************)
NoErr == [root |-> "nil", code |-> 0, stack |-> FALSE]

CodeDupEntry == 1062     \* a code registered for its error class
CodeUnregistered == 9999 \* a code no error class registers
CodeUnknown == 1105      \* mysql.ErrUnknown, the default SQL code

PlainErr == [root |-> "plain", code |-> 0, stack |-> FALSE]

\* The errors the session returns: a bare *terror.Error, one that already
\* carries a stack, and an error of another type.
SessionErrs ==
    {[root |-> "terror", code |-> CodeDupEntry, stack |-> FALSE],
     [root |-> "terror", code |-> CodeUnregistered, stack |-> TRUE],
     PlainErr}

\* Trace with a fault: the error is replaced by a new one made from its
\* message.
TraceFresh(err) ==
    IF err = NoErr THEN NoErr ELSE [root |-> "plain", code |-> 0, stack |-> TRUE]

\* errors.Trace: nil stays nil, an error gets a stack unless it has one.
Trace(err) ==
    IF err = NoErr THEN NoErr ELSE [err EXCEPT !.stack = TRUE]

\* errors.Cause: the innermost error, without the stacks added on top.
Cause(err) ==
    IF err = NoErr THEN NoErr ELSE [err EXCEPT !.stack = FALSE]

\* terror.ToSQLError(tErr).Code: the error's own code when its class
\* registers it, mysql.ErrUnknown otherwise.
ToSQLError(tErr) ==
    IF tErr.code = CodeUnregistered THEN CodeUnknown ELSE tErr.code

(***************************************************************************)
(* Session calls.  A call is recorded with its argument (the statement     *)
(* index, the statement id or the record set), the record set it returned  *)
(* and the error it returned.  A call that passes or returns a list (of    *)
(* warnings, of rows) is recorded with that list as its data.              *)
(***************************************************************************)
CallData(op, arg, rs, err, data) ==
    [op |-> op, arg |-> arg, rs |-> rs, err |-> err, data |-> data]

Call(op, arg, rs, err) == CallData(op, arg, rs, err, <<>>)

\* What ExecuteStmt or ExecutePreparedStmt can answer: no error with or
\* without a record set, or an error and no record set.
StmtOutcomes ==
    {[hasRS |-> b, err |-> NoErr] : b \in BOOLEAN}
    \cup {[hasRS |-> FALSE, err |-> e] : e \in SessionErrs}

RECURSIVE SeqsUpTo(_, _)
SeqsUpTo(S, n) ==
    IF n = 0 THEN {<<>>}
    ELSE LET shorter == SeqsUpTo(S, n - 1)
         IN  shorter \cup {Append(s, x) : s \in {t \in shorter : Len(t) = n - 1}, x \in S}

(***************************************************************************)
(* TestKit.Exec (testkit.go:144-189).  `in` holds what the session answers *)
(* to the calls Exec makes: in.args is len(args) > 0; in.parseErr,         *)
(* in.warns and in.stmts answer Parse; in.stmts[i] answers ExecuteStmt of  *)
(* the i-th statement; in.prev is the number of warnings in the statement  *)
(* context before the call and in.fresh tells whether the session gives    *)
(* every statement it executes a fresh statement context.  Further,        *)
(* the i-th statement; in.prepErr and in.stmtID answer PrepareStmt;        *)
(* in.execOut answers ExecutePreparedStmt; in.dropErr answers              *)
(* DropPreparedStmt.  The result is the returned record set, the returned  *)
(* error and the session calls made, in order.                             *)
(***************************************************************************)
ExecRet(rs, err, calls) == [rs |-> rs, err |-> err, calls |-> calls]

\* The loop with a fault: an error does not end it, the last error is
\* returned once all statements have been executed.
RECURSIVE ExecuteStmtsNoAbort(_, _, _, _)
ExecuteStmtsNoAbort(stmts, i, rs0, calls) ==
    IF i > Len(stmts)
    THEN LET failed == {j \in 1..Len(calls) : calls[j].err # NoErr}
         IN  IF failed = {} THEN ExecRet(rs0, NoErr, calls)
             ELSE ExecRet(Nil, Trace(calls[CHOOSE j \in failed : \A l \in failed : l <= j].err),
                          calls)
    ELSE LET rs == IF stmts[i].hasRS THEN i ELSE Nil
         IN  ExecuteStmtsNoAbort(stmts, i + 1, IF i = 1 THEN rs ELSE rs0,
                                 Append(calls, Call("ExecuteStmt", i, rs, stmts[i].err)))

\* The loop with a fault: rs0 is overwritten by every statement.
RECURSIVE ExecuteStmtsLast(_, _, _, _)
ExecuteStmtsLast(stmts, i, rs0, calls) ==
    IF i > Len(stmts) THEN ExecRet(rs0, NoErr, calls)
    ELSE LET rs == IF stmts[i].hasRS THEN i ELSE Nil
             err == stmts[i].err
             executed == Append(calls, Call("ExecuteStmt", i, rs, err))
         IN  IF err # NoErr
             THEN ExecRet(Nil, Trace(err),
                          Append(executed, Call("AppendError", i, Nil, err)))
             ELSE ExecuteStmtsLast(stmts, i + 1, rs, executed)

\* The loop with a fault: the first record set is returned with the error.
RECURSIVE ExecuteStmtsKeepFirst(_, _, _, _)
ExecuteStmtsKeepFirst(stmts, i, rs0, calls) ==
    IF i > Len(stmts) THEN ExecRet(rs0, NoErr, calls)
    ELSE LET rs == IF stmts[i].hasRS THEN i ELSE Nil
             err == stmts[i].err
             executed == Append(calls, Call("ExecuteStmt", i, rs, err))
             first == IF i = 1 THEN rs ELSE rs0
         IN  IF err # NoErr
             THEN ExecRet(first, Trace(err),
                          Append(executed, Call("AppendError", i, Nil, err)))
             ELSE ExecuteStmtsKeepFirst(stmts, i + 1, first, executed)

\* The loop of testkit.go:156-165 from statement i on.  The record set of
\* statement i is identified by i.
RECURSIVE ExecuteStmts(_, _, _, _)
ExecuteStmts(stmts, i, rs0, calls) ==
    IF i > Len(stmts) THEN ExecRet(rs0, NoErr, calls)
    ELSE LET rs == IF stmts[i].hasRS THEN i ELSE Nil
             err == stmts[i].err
             executed == Append(calls, Call("ExecuteStmt", i, rs, err))
             first == IF i = 1 THEN rs ELSE rs0
         IN  IF err # NoErr
             THEN ExecRet(Nil, Trace(err),
                          Append(executed, Call("AppendError", i, Nil, err)))
             ELSE ExecuteStmts(stmts, i + 1, first, executed)

\* The warnings of a statement context.  A warning that was there before
\* the call is 0, the j-th warning raised by Parse is j, and a warning
\* made of an error by AppendError is -1.
PrevWarns(in) == [j \in 1..in.prev |-> 0]
GetWarnings(in) == PrevWarns(in) \o [j \in 1..in.warns |-> j]

\* testkit.go:149: Parse, with the warnings of the statement context when it
\* returned.
Parsed(in) == <<CallData("Parse", Len(in.stmts), Nil, in.parseErr, GetWarnings(in))>>

\* ExecParsed with a fault: the error of Parse is not checked.
ExecParsedUnchecked(in) ==
    ExecuteStmts(in.stmts, 1, Nil, Parsed(in))

\* testkit.go:146-170: no arguments, parse and execute statement by statement.
ExecParsed(in) ==
    LET prevWarns == PrevWarns(in)
        warns == GetWarnings(in)
        parserWarns == SubSeq(warns, Len(prevWarns) + 1, Len(warns))
        r == ExecuteStmts(in.stmts, 1, Nil, Parsed(in))
    IN  IF in.parseErr # NoErr THEN ExecRet(Nil, Trace(in.parseErr), Parsed(in))
        ELSE IF r.err # NoErr THEN r
        ELSE IF Len(parserWarns) > 0
             THEN ExecRet(r.rs, NoErr,
                          Append(r.calls,
                                 CallData("AppendWarnings", Len(parserWarns), Nil, NoErr,
                                          parserWarns)))
             ELSE r

\* testkit.go:172-188: arguments, prepare / execute / drop.  The record set
\* of the prepared statement is identified by 1.
ExecPrepared(in) ==
    LET prepared == <<Call("PrepareStmt", IF in.prepErr = NoErr THEN in.stmtID ELSE 0,
                           Nil, in.prepErr)>>
        rs == IF in.execOut.hasRS THEN 1 ELSE Nil
        executed == Append(prepared,
                           Call("ExecutePreparedStmt", in.stmtID, rs, in.execOut.err))
        dropped == Append(executed, Call("DropPreparedStmt", in.stmtID, Nil, in.dropErr))
    IN  IF in.prepErr # NoErr THEN ExecRet(Nil, Trace(in.prepErr), prepared)
        ELSE IF in.execOut.err # NoErr THEN ExecRet(Nil, Trace(in.execOut.err), executed)
        ELSE IF in.dropErr # NoErr THEN ExecRet(Nil, Trace(in.dropErr), dropped)
        ELSE ExecRet(rs, NoErr, dropped)

Exec(in) == IF in.args THEN ExecPrepared(in) ELSE ExecParsed(in)

\* The warnings of the session's current statement context after the calls
\* from the i-th on, when it held `list` before them.  Parse leaves the
\* warnings recorded with it, AppendError and AppendWarnings append, and a
\* session that gives every statement a fresh context starts ExecuteStmt
\* and ExecutePreparedStmt with no warnings.
RECURSIVE StmtCtxWarnings(_, _, _, _)
StmtCtxWarnings(calls, i, list, fresh) ==
    IF i > Len(calls) THEN list
    ELSE LET c == calls[i]
             next == CASE c.op = "Parse" -> c.data
                       [] c.op \in {"ExecuteStmt", "ExecutePreparedStmt"} ->
                            IF fresh THEN <<>> ELSE list
                       [] c.op = "AppendError" -> Append(list, -1)
                       [] c.op = "AppendWarnings" -> list \o c.data
                       [] OTHER -> list
         IN  StmtCtxWarnings(calls, i + 1, next, fresh)

\* The warnings before an Exec call and those of the current statement
\* context when it returns.
ExecWarnings(in) ==
    [prev |-> PrevWarns(in),
     final |-> StmtCtxWarnings(Exec(in).calls, 1, PrevWarns(in), in.fresh)]

\* Statement outcomes in which nothing is answered after the first error:
\* the statements after a failing one are never submitted.
Unasked == [hasRS |-> FALSE, err |-> NoErr]
Answered == [hasRS |-> TRUE, err |-> NoErr]

Batches ==
    {ss \in SeqsUpTo(StmtOutcomes, MaxStmts) :
        \A i, j \in 1..Len(ss) : (i < j /\ ss[i].err # NoErr) => ss[j] = Unasked}

\* The answers of the session to an Exec call without arguments.  With an
\* error Parse returns no statement, or the statement it parsed before
\* the error.
ParsedInputs ==
    {[args |-> FALSE, parseErr |-> e, warns |-> 0, prev |-> 0, fresh |-> FALSE,
      stmts |-> ss, prepErr |-> NoErr, stmtID |-> 0, execOut |-> [hasRS |-> FALSE, err |-> NoErr],
      dropErr |-> NoErr] : e \in SessionErrs, ss \in {<<>>, <<Answered>>}}
    \cup
    {[args |-> FALSE, parseErr |-> NoErr, warns |-> w, prev |-> p, fresh |-> f,
      stmts |-> ss, prepErr |-> NoErr, stmtID |-> 0,
      execOut |-> [hasRS |-> FALSE, err |-> NoErr], dropErr |-> NoErr] :
        w \in 0..MaxWarns, p \in 0..MaxWarns, f \in BOOLEAN, ss \in Batches}

\* The answers of the session to an Exec call with arguments.  DropPreparedStmt
\* is asked only after ExecutePreparedStmt succeeded.
PreparedInputs ==
    {[args |-> TRUE, parseErr |-> NoErr, warns |-> 0, prev |-> 0, fresh |-> FALSE,
      stmts |-> <<>>, prepErr |-> e, stmtID |-> 0, execOut |-> [hasRS |-> FALSE, err |-> NoErr],
      dropErr |-> NoErr] : e \in SessionErrs}
    \cup
    {in \in
        {[args |-> TRUE, parseErr |-> NoErr, warns |-> 0, prev |-> 0, fresh |-> FALSE,
          stmts |-> <<>>, prepErr |-> NoErr, stmtID |-> id, execOut |-> o, dropErr |-> d] :
            id \in 1..MaxStmtID, o \in StmtOutcomes, d \in SessionErrs \cup {NoErr}} :
        in.execOut.err # NoErr => in.dropErr = NoErr}

ExecInputs == ParsedInputs \cup PreparedInputs

\* The answers followed for the operations built on Exec, whose results do
\* not depend on the warnings: no warning before the call, and a session
\* that keeps its statement context.
CallInputs == {in \in ExecInputs : in.prev = 0 /\ ~in.fresh}

(***************************************************************************)
(* The operations built on Exec.  Each yields the outcome of the call      *)
(* ("returned", or "fatal" when a require assertion stopped the test), the *)
(* values returned to the caller, what the inner Exec returned, and the    *)
(* session calls made.  closeErr answers RecordSet.Close, resErr answers   *)
(* session.GetRows4Test.                                                   *)
(***************************************************************************)
Ret(outcome, rs, err, r, calls) ==
    [outcome |-> outcome, rs |-> rs, err |-> err,
     exec |-> [rs |-> r.rs, err |-> r.err], calls |-> calls]

Closed(r, closeErr) == Append(r.calls, Call("Close", r.rs, Nil, closeErr))

\* testkit.go:192-198
ExecToErr(in, closeErr) ==
    LET r == Exec(in)
    IN  IF r.rs = Nil THEN Ret("returned", Nil, r.err, r, r.calls)
        ELSE IF closeErr # NoErr THEN Ret("fatal", Nil, NoErr, r, Closed(r, closeErr))
        ELSE Ret("returned", Nil, r.err, r, Closed(r, closeErr))

\* testkit.go:78-86
MustExec(in, closeErr) ==
    LET r == Exec(in)
    IN  IF r.err # NoErr THEN Ret("fatal", Nil, NoErr, r, r.calls)
        ELSE IF r.rs = Nil THEN Ret("returned", Nil, NoErr, r, r.calls)
        ELSE IF closeErr # NoErr THEN Ret("fatal", Nil, NoErr, r, Closed(r, closeErr))
        ELSE Ret("returned", Nil, NoErr, r, Closed(r, closeErr))

\* QueryToErr with a fault: the error of Exec is returned instead of being
\* asserted, and the streaming error is dropped.
QueryToErrExecErr(in, resErr, closeErr) ==
    LET r == Exec(in)
        streamed == Append(r.calls, Call("GetRows4Test", r.rs, Nil, resErr))
        closed == Append(streamed, Call("Close", r.rs, Nil, closeErr))
    IN  IF r.rs = Nil THEN Ret("returned", Nil, r.err, r, r.calls)
        ELSE IF closeErr # NoErr THEN Ret("fatal", Nil, NoErr, r, closed)
        ELSE Ret("returned", Nil, r.err, r, closed)

\* testkit.go:99-107
QueryToErr(in, resErr, closeErr) ==
    LET r == Exec(in)
        streamed == Append(r.calls, Call("GetRows4Test", r.rs, Nil, resErr))
        closed == Append(streamed, Call("Close", r.rs, Nil, closeErr))
    IN  IF r.err # NoErr THEN Ret("fatal", Nil, NoErr, r, r.calls)
        ELSE IF r.rs = Nil THEN Ret("fatal", Nil, NoErr, r, r.calls)
        ELSE IF closeErr # NoErr THEN Ret("fatal", Nil, NoErr, r, closed)
        ELSE Ret("returned", Nil, resErr, r, closed)

\* MustGetErrCode with a fault: the type of the returned error is asserted,
\* not the type of its cause.
MustGetErrCodeNoCause(in, errCode) ==
    LET r == Exec(in)
        ok == r.err.root = "terror" /\ ~r.err.stack
    IN  IF r.err = NoErr THEN Ret("fatal", Nil, NoErr, r, r.calls)
        ELSE IF ~ok THEN Ret("fatal", Nil, NoErr, r, r.calls)
        ELSE IF errCode # ToSQLError(r.err) THEN Ret("fatal", Nil, NoErr, r, r.calls)
        ELSE Ret("returned", Nil, NoErr, r, r.calls)

\* testkit.go:215-223.  Exec is called with the SQL text alone.
MustGetErrCode(in, errCode) ==
    LET r == Exec(in)
        originErr == Cause(r.err)
        ok == originErr.root = "terror"
    IN  IF r.err = NoErr THEN Ret("fatal", Nil, NoErr, r, r.calls)
        ELSE IF ~ok THEN Ret("fatal", Nil, NoErr, r, r.calls)
        ELSE IF errCode # ToSQLError(originErr) THEN Ret("fatal", Nil, NoErr, r, r.calls)
        ELSE Ret("returned", Nil, NoErr, r, r.calls)

(***************************************************************************)
(* Strings are sequences of characters.                                    *)
(***************************************************************************)
\* strings.Contains
Contains(s, substr) ==
    \E i \in 0..(Len(s) - Len(substr)) : SubSeq(s, i + 1, i + Len(substr)) = substr

\* The literal "index:" of testkit.go:236.
IndexPrefix == <<"i", "n", "d", "e", "x", ":">>

\* Rows of an explain result: id, estRows, task, access object, operator
\* info; and the single-column row of a plan printed as one text.
TableRow == <<<<"T", "S">>, <<"1">>, <<"r">>, <<"t", "a", "b", "l", "e", ":", "t">>, <<>>>>
IndexRow == <<<<"I", "S">>, <<"1">>, <<"c">>, IndexPrefix \o <<"a", "b">>, <<>>>>
TextRow == <<<<"d", "o", "t">>>>
ExplainRows == {TableRow, IndexRow, TextRow}

\* What session.ResultSetToStringSlice can answer for a record set: rows
\* that all have the columns of the record set.
RowSeqs ==
    {rows \in SeqsUpTo(ExplainRows, MaxRows) :
        \A i, j \in 1..Len(rows) : Len(rows[i]) = Len(rows[j])}

\* The plan fragments and index names a test asks for.
PlanFrags == {<<>>, <<"S">>, <<"I", "S">>, <<"S", "T">>}
IndexNames == {<<"a">>, <<"b">>, <<"a", "b">>}

\* The result of MustQuery, HasPlan and MustUseIndex: as Ret, with the rows
\* of the Result and the boolean returned.
QRet(outcome, r, calls, rows, val) ==
    [outcome |-> outcome, rs |-> Nil, err |-> NoErr,
     exec |-> [rs |-> r.rs, err |-> r.err], calls |-> calls, rows |-> rows, val |-> val]

\* MustQuery with a fault: the record set is not asserted to be non-nil, a
\* nil one yields a Result without rows.
MustQueryNoNotNil(in, rows, rowErr) ==
    LET r == Exec(in)
        converted == Append(r.calls,
                            CallData("ResultSetToStringSlice", r.rs, Nil, rowErr,
                                     IF rowErr = NoErr THEN rows ELSE <<>>))
    IN  IF r.err # NoErr THEN QRet("fatal", r, r.calls, <<>>, FALSE)
        ELSE IF r.rs = Nil THEN QRet("returned", r, r.calls, <<>>, FALSE)
        ELSE IF rowErr # NoErr THEN QRet("fatal", r, converted, <<>>, FALSE)
        ELSE QRet("returned", r, converted, rows, FALSE)

\* testkit.go:90-96 with ResultSetToResult and ResultSetToResultWithCtx
\* (testkit.go:111-120).  rows and rowErr answer ResultSetToStringSlice.
MustQuery(in, rows, rowErr) ==
    LET r == Exec(in)
        converted == Append(r.calls,
                            CallData("ResultSetToStringSlice", r.rs, Nil, rowErr,
                                     IF rowErr = NoErr THEN rows ELSE <<>>))
    IN  IF r.err # NoErr THEN QRet("fatal", r, r.calls, <<>>, FALSE)
        ELSE IF r.rs = Nil THEN QRet("fatal", r, r.calls, <<>>, FALSE)
        ELSE IF rowErr # NoErr THEN QRet("fatal", r, converted, <<>>, FALSE)
        ELSE QRet("returned", r, converted, rows, FALSE)

\* The loops of testkit.go:125-130 and 235-240 from row i on: "true" at the
\* first row whose column col contains frag, "false" after the last row,
\* "panic" at a row that has no column col.
RECURSIVE ScanRows(_, _, _, _)
ScanRows(rows, i, col, frag) ==
    IF i > Len(rows) THEN "false"
    ELSE IF Len(rows[i]) < col THEN "panic"
    ELSE IF Contains(rows[i][col], frag) THEN "true"
    ELSE ScanRows(rows, i + 1, col, frag)

\* What the caller gets from a scan of the rows of q.
Scanned(q, found) ==
    IF found = "panic" THEN [q EXCEPT !.outcome = "panic"]
    ELSE [q EXCEPT !.val = (found = "true")]

\* HasPlan with a fault: only the first row is looked at.
HasPlanFirstRow(in, rows, rowErr, plan) ==
    LET q == MustQuery(in, rows, rowErr)
    IN  IF q.outcome # "returned" THEN q
        ELSE Scanned(q, ScanRows(IF q.rows = <<>> THEN <<>> ELSE <<q.rows[1]>>, 1, 1, plan))

\* testkit.go:123-131
HasPlan(in, rows, rowErr, plan) ==
    LET q == MustQuery(in, rows, rowErr)
    IN  IF q.outcome # "returned" THEN q
        ELSE Scanned(q, ScanRows(q.rows, 1, 1, plan))

\* MustUseIndex with a fault: the index name is looked for without "index:".
MustUseIndexNoPrefix(in, rows, rowErr, index) ==
    LET q == MustQuery(in, rows, rowErr)
    IN  IF q.outcome # "returned" THEN q
        ELSE Scanned(q, ScanRows(q.rows, 1, 4, index))

\* testkit.go:233-241
MustUseIndex(in, rows, rowErr, index) ==
    LET q == MustQuery(in, rows, rowErr)
    IN  IF q.outcome # "returned" THEN q
        ELSE Scanned(q, ScanRows(q.rows, 1, 4, IndexPrefix \o index))

\* The answers of ResultSetToStringSlice, asked only when Exec returned a
\* record set without error: rows, or an error.
RowAnswers(in) ==
    IF Exec(in).rs = Nil THEN {[rows |-> <<>>, err |-> NoErr]}
    ELSE {[rows |-> rows, err |-> NoErr] : rows \in RowSeqs}
         \cup {[rows |-> <<>>, err |-> e] : e \in SessionErrs}

\* The answers of the session to the execution of "explain <sql>": one
\* statement at most.
ExplainInputs ==
    {in \in CallInputs : Len(in.stmts) <= 1 /\ in.warns = 0 /\ in.stmtID <= 1}

\* The error codes a test expects.
ErrCodes == {CodeDupEntry, CodeUnregistered, CodeUnknown}

\* The answers of GetRows4Test and of Close, asked only when Exec returned
\* a record set.
RowErrs(in) == IF Exec(in).rs = Nil THEN {NoErr} ELSE SessionErrs \cup {NoErr}
CloseErrs(in) == IF Exec(in).rs = Nil THEN {NoErr} ELSE {NoErr, PlainErr}

(***************************************************************************)
(* The state machine.                                                      *)
(***************************************************************************)
NoExec == [rs |-> Nil, err |-> NoErr]

\* `last` after operation op of instance k with result res.
Did(op, k, code, res) ==
    [op |-> op, kit |-> k, code |-> code, outcome |-> res.outcome, rs |-> res.rs,
     err |-> res.err, exec |-> res.exec, calls |-> res.calls,
     rows |-> <<>>, val |-> FALSE, frag |-> <<>>,
     warns |-> [prev |-> <<>>, final |-> <<>>]]

\* `last` after MustQuery, HasPlan or MustUseIndex: with the rows of the
\* Result, the boolean returned and the fragment or index name asked for.
DidQuery(op, k, frag, res) ==
    [Did(op, k, 0, res) EXCEPT !.rows = res.rows, !.val = res.val, !.frag = frag]

\* An operation that calls nothing on the session.
Plain(outcome) ==
    [outcome |-> outcome, rs |-> Nil, err |-> NoErr, exec |-> NoExec, calls |-> <<>>]

\* A goroutine that is in no call: the operation it is in, the session the
\* call works on, the identifier Inc returned to it, and the calls it has
\* completed with the session and identifier of each.
Idle == [pc |-> "idle", op |-> "none", se |-> Nil, id |-> 0, made |-> <<>>]

Init ==
    /\ idGen = 0
    /\ kits = {}
    /\ nSess = 0
    /\ sessConn = <<>>
    /\ tkSession = [k \in Kits |-> Nil]
    /\ viaSet = [k \in Kits |-> FALSE]
    /\ assigned = <<>>
    /\ last = Did("none", 0, 0, Plain("returned"))
    /\ procs = [g \in Kits |-> Idle]

\* Inc with a fault: the counter is read, not incremented.
IncStale(n) == n

\* atomic.Uint64.Inc: the incremented value.
Inc(n) == n + 1

\* session.CreateSession4Test: a new session object, connection id 0.
CreateSession4Test(conns) == Append(conns, 0)

\* Session.SetConnectionID
SetConnectionID(conns, se, id) == [conns EXCEPT ![se] = id]

\* newSession with a fault: the new session keeps connection id 0.
newSessionNoID(conns) == CreateSession4Test(conns)

\* testkit.go:200-205: the session store after newSession created session
\* object nSess + 1 and gave it the next identifier.
newSession(conns) ==
    SetConnectionID(CreateSession4Test(conns), Len(conns) + 1, Inc(idGen))

CanCreate == nSess < MaxSess /\ Len(assigned) < MaxIDs

\* testkit.go:52-60.  createOK: CreateSession4Test returned no error;
\* otherwise require.NoError stops the test inside newSession.
NewTestKit(k) ==
    /\ k \notin kits
    /\ UNCHANGED procs
    /\ CanCreate
    /\ \E createOK \in BOOLEAN :
        IF createOK
        THEN /\ kits' = kits \cup {k}
             /\ nSess' = nSess + 1
             /\ idGen' = Inc(idGen)
             /\ assigned' = Append(assigned, Inc(idGen))
             /\ sessConn' = newSession(sessConn)
             /\ tkSession' = [tkSession EXCEPT ![k] = nSess + 1]
             /\ viaSet' = [viaSet EXCEPT ![k] = FALSE]
             /\ last' = Did("NewTestKit", k, 0, Plain("returned"))
        ELSE /\ last' = Did("NewTestKit", k, 0, Plain("fatal"))
             /\ UNCHANGED <<idGen, kits, nSess, sessConn, tkSession, viaSet, assigned>>

\* testkit.go:63-65
RefreshSession(k) ==
    /\ k \in kits
    /\ UNCHANGED procs
    /\ CanCreate
    /\ \E createOK \in BOOLEAN :
        IF createOK
        THEN /\ nSess' = nSess + 1
             /\ idGen' = Inc(idGen)
             /\ assigned' = Append(assigned, Inc(idGen))
             /\ sessConn' = newSession(sessConn)
             /\ tkSession' = [tkSession EXCEPT ![k] = nSess + 1]
             /\ viaSet' = [viaSet EXCEPT ![k] = FALSE]
             /\ last' = Did("RefreshSession", k, 0, Plain("returned"))
             /\ UNCHANGED kits
        ELSE /\ last' = Did("RefreshSession", k, 0, Plain("fatal"))
             /\ UNCHANGED <<idGen, kits, nSess, sessConn, tkSession, viaSet, assigned>>

\* testkit.go:68-70.  The caller passes nil, a session object that exists
\* (another instance's, or the instance's own), or one it created itself,
\* with whatever connection id it gave it.
SetSession(k) ==
    /\ k \in kits
    /\ UNCHANGED procs
    /\ \/ \E se \in 0..nSess :
            /\ tkSession' = [tkSession EXCEPT ![k] = se]
            /\ UNCHANGED <<nSess, sessConn>>
       \/ /\ nSess < MaxSess
          /\ \E id \in 0..MaxIDs :
                /\ nSess' = nSess + 1
                /\ sessConn' = SetConnectionID(CreateSession4Test(sessConn), nSess + 1, id)
                /\ tkSession' = [tkSession EXCEPT ![k] = nSess + 1]
    /\ viaSet' = [viaSet EXCEPT ![k] = TRUE]
    /\ last' = Did("SetSession", k, 0, Plain("returned"))
    /\ UNCHANGED <<idGen, kits, assigned>>

\* testkit.go:208-212
RefreshConnectionID(k) ==
    /\ k \in kits
    /\ UNCHANGED procs
    /\ Len(assigned) < MaxIDs
    /\ IF tkSession[k] # Nil
       THEN /\ idGen' = Inc(idGen)
            /\ assigned' = Append(assigned, Inc(idGen))
            /\ sessConn' = SetConnectionID(sessConn, tkSession[k], Inc(idGen))
       ELSE UNCHANGED <<idGen, assigned, sessConn>>
    /\ last' = Did("RefreshConnectionID", k, 0, Plain("returned"))
    /\ UNCHANGED <<kits, nSess, tkSession, viaSet>>

\* The operations below call the session of instance k and leave the
\* instances and their sessions alone.  With a nil session the first
\* dereference panics and nothing returns.
HasSession(k) == k \in kits /\ tkSession[k] # Nil

TkExec(k) ==
    /\ HasSession(k)
    /\ \E in \in ExecInputs :
        LET r == Exec(in)
        IN  last' = [Did("Exec", k, 0, Ret("returned", r.rs, r.err, r, r.calls))
                        EXCEPT !.warns = ExecWarnings(in)]
    /\ UNCHANGED <<idGen, kits, nSess, sessConn, tkSession, viaSet, assigned, procs>>

TkExecToErr(k) ==
    /\ HasSession(k)
    /\ \E in \in CallInputs : \E closeErr \in CloseErrs(in) :
        last' = Did("ExecToErr", k, 0, ExecToErr(in, closeErr))
    /\ UNCHANGED <<idGen, kits, nSess, sessConn, tkSession, viaSet, assigned, procs>>

TkMustExec(k) ==
    /\ HasSession(k)
    /\ \E in \in CallInputs : \E closeErr \in CloseErrs(in) :
        last' = Did("MustExec", k, 0, MustExec(in, closeErr))
    /\ UNCHANGED <<idGen, kits, nSess, sessConn, tkSession, viaSet, assigned, procs>>

TkQueryToErr(k) ==
    /\ HasSession(k)
    /\ \E in \in CallInputs : \E resErr \in RowErrs(in), closeErr \in CloseErrs(in) :
        last' = Did("QueryToErr", k, 0, QueryToErr(in, resErr, closeErr))
    /\ UNCHANGED <<idGen, kits, nSess, sessConn, tkSession, viaSet, assigned, procs>>

TkMustGetErrCode(k) ==
    /\ HasSession(k)
    /\ \E in \in CallInputs \cap ParsedInputs, errCode \in ErrCodes :
        last' = Did("MustGetErrCode", k, errCode, MustGetErrCode(in, errCode))
    /\ UNCHANGED <<idGen, kits, nSess, sessConn, tkSession, viaSet, assigned, procs>>

TkMustQuery(k) ==
    /\ HasSession(k)
    /\ \E in \in CallInputs : \E a \in RowAnswers(in) :
        last' = DidQuery("MustQuery", k, <<>>, MustQuery(in, a.rows, a.err))
    /\ UNCHANGED <<idGen, kits, nSess, sessConn, tkSession, viaSet, assigned, procs>>

TkHasPlan(k) ==
    /\ HasSession(k)
    /\ \E in \in ExplainInputs, plan \in PlanFrags : \E a \in RowAnswers(in) :
        last' = DidQuery("HasPlan", k, plan, HasPlan(in, a.rows, a.err, plan))
    /\ UNCHANGED <<idGen, kits, nSess, sessConn, tkSession, viaSet, assigned, procs>>

TkMustUseIndex(k) ==
    /\ HasSession(k)
    /\ \E in \in ExplainInputs, index \in IndexNames : \E a \in RowAnswers(in) :
        last' = DidQuery("MustUseIndex", k, index, MustUseIndex(in, a.rows, a.err, index))
    /\ UNCHANGED <<idGen, kits, nSess, sessConn, tkSession, viaSet, assigned, procs>>

(***************************************************************************)
(* The operations on sessions and connection identifiers.                  *)
(***************************************************************************)
NextConn ==
    \E k \in Kits :
        \/ NewTestKit(k)
        \/ RefreshSession(k)
        \/ SetSession(k)
        \/ RefreshConnectionID(k)

SpecConn == Init /\ [][NextConn]_vars

(***************************************************************************)
(* The operations that execute SQL.  They read the instance's session and  *)
(* change none of the state above, so they are explored from the state in  *)
(* which NewTestKit has constructed one instance.                          *)
(***************************************************************************)
InitExec ==
    /\ idGen = Inc(0)
    /\ kits = {1}
    /\ nSess = 1
    /\ sessConn = <<Inc(0)>>
    /\ tkSession = [k \in Kits |-> IF k = 1 THEN 1 ELSE Nil]
    /\ viaSet = [k \in Kits |-> FALSE]
    /\ assigned = <<Inc(0)>>
    /\ last = Did("NewTestKit", 1, 0, Plain("returned"))
    /\ procs = [g \in Kits |-> Idle]

NextExec ==
    \E k \in Kits :
        \/ TkExec(k)
        \/ TkExecToErr(k)
        \/ TkMustExec(k)
        \/ TkQueryToErr(k)
        \/ TkMustGetErrCode(k)

SpecExec == InitExec /\ [][NextExec]_vars

(***************************************************************************)
(* The operations that query and look at the rows, explored like the ones  *)
(* above.                                                                  *)
(***************************************************************************)
NextQuery ==
    \E k \in Kits :
        \/ TkMustQuery(k)
        \/ TkHasPlan(k)
        \/ TkMustUseIndex(k)

SpecQuery == InitExec /\ [][NextQuery]_vars

(***************************************************************************)
(* NewTestKit, RefreshSession and RefreshConnectionID called from several  *)
(* goroutines.  Goroutine g works on harness instance g, so the only       *)
(* memory the goroutines share is testKitIDGenerator and the store.  A     *)
(* call is a sequence of steps, and the steps of different goroutines      *)
(* interleave; testKitIDGenerator.Inc() is one step, being atomic.         *)
(***************************************************************************)
\* The identifiers handed out so far and the calls that are about to ask
\* for one.
Reserved ==
    Len(assigned) + Cardinality({g \in Kits : procs[g].pc \in {"created", "checked"}})

\* testkit.go:201-202, reached from NewTestKit (testkit.go:57) for an
\* instance that does not exist yet and from RefreshSession (testkit.go:64)
\* for one that does: CreateSession4Test and require.NoError.
GoCreateSession(g) ==
    /\ procs[g].pc = "idle"
    /\ nSess < MaxSess
    /\ Reserved < MaxIDs
    /\ LET op == IF g \in kits THEN "RefreshSession" ELSE "NewTestKit"
       IN  \E createOK \in BOOLEAN :
            IF createOK
            THEN /\ nSess' = nSess + 1
                 /\ sessConn' = CreateSession4Test(sessConn)
                 /\ procs' = [procs EXCEPT ![g].pc = "created", ![g].op = op,
                                           ![g].se = nSess + 1]
                 /\ UNCHANGED last
            ELSE /\ last' = Did(op, g, 0, Plain("fatal"))
                 /\ UNCHANGED <<nSess, sessConn, procs>>
    /\ UNCHANGED <<idGen, kits, tkSession, viaSet, assigned>>

\* testkit.go:209: RefreshConnectionID reads tk.session and returns when it
\* is nil.
GoCheckSession(g) ==
    /\ procs[g].pc = "idle"
    /\ g \in kits
    /\ Reserved < MaxIDs
    /\ IF tkSession[g] # Nil
       THEN /\ procs' = [procs EXCEPT ![g].pc = "checked",
                                      ![g].op = "RefreshConnectionID",
                                      ![g].se = tkSession[g]]
            /\ UNCHANGED last
       ELSE /\ last' = Did("RefreshConnectionID", g, 0, Plain("returned"))
            /\ UNCHANGED procs
    /\ UNCHANGED <<idGen, kits, nSess, sessConn, tkSession, viaSet, assigned>>

\* testkit.go:203 and 210: testKitIDGenerator.Inc(), atomically.
GoInc(g) ==
    /\ procs[g].pc \in {"created", "checked"}
    /\ idGen' = Inc(idGen)
    /\ assigned' = Append(assigned, Inc(idGen))
    /\ procs' = [procs EXCEPT ![g].pc = "incremented", ![g].id = Inc(idGen)]
    /\ UNCHANGED <<kits, nSess, sessConn, tkSession, viaSet, last>>

\* testkit.go:203 and 210: the identifier is stored in the session.
\* RefreshConnectionID returns after it.
GoSetConnectionID(g) ==
    /\ procs[g].pc = "incremented"
    /\ sessConn' = SetConnectionID(sessConn, procs[g].se, procs[g].id)
    /\ IF procs[g].op = "RefreshConnectionID"
       THEN /\ procs' = [procs EXCEPT ![g] =
                            [Idle EXCEPT !.made =
                                Append(procs[g].made,
                                       [op |-> procs[g].op, se |-> procs[g].se,
                                        id |-> procs[g].id])]]
            /\ last' = Did("RefreshConnectionID", g, 0, Plain("returned"))
       ELSE /\ procs' = [procs EXCEPT ![g].pc = "set"]
            /\ UNCHANGED last
    /\ UNCHANGED <<idGen, kits, nSess, tkSession, viaSet, assigned>>

\* testkit.go:204 with testkit.go:57-59 and 64: newSession returns the
\* session, which becomes the session of the instance; NewTestKit returns
\* the instance.
GoInstall(g) ==
    /\ procs[g].pc = "set"
    /\ kits' = kits \cup {g}
    /\ tkSession' = [tkSession EXCEPT ![g] = procs[g].se]
    /\ viaSet' = [viaSet EXCEPT ![g] = FALSE]
    /\ procs' = [procs EXCEPT ![g] =
                    [Idle EXCEPT !.made =
                        Append(procs[g].made,
                               [op |-> procs[g].op, se |-> procs[g].se, id |-> procs[g].id])]]
    /\ last' = Did(procs[g].op, g, 0, Plain("returned"))
    /\ UNCHANGED <<idGen, nSess, sessConn, assigned>>

NextGo ==
    \E g \in Kits :
        \/ GoCreateSession(g)
        \/ GoCheckSession(g)
        \/ GoInc(g)
        \/ GoSetConnectionID(g)
        \/ GoInstall(g)

SpecGo == Init /\ [][NextGo]_vars

\* The whole harness: all groups of operations.  The properties are checked
\* under the specification of the group they are about.
Next == NextConn \/ NextExec \/ NextQuery \/ NextGo

Spec == Init /\ [][Next]_vars

(***************************************************************************)
(* Properties.  They read the last operation: its session calls in order,  *)
(* what the inner Exec returned, and what the caller got.                  *)
(***************************************************************************)
Calls == last.calls
CallIdx(op) == {i \in 1..Len(Calls) : Calls[i].op = op}

\* The last operation is Exec and it took the path without / with arguments.
ExecNoArgs == last.op = "Exec" /\ CallIdx("Parse") # {}
ExecWithArgs == last.op = "Exec" /\ CallIdx("PrepareStmt") # {}

\* The record sets the session handed out, and the ones Close was called on.
Handed == {Calls[i].rs : i \in 1..Len(Calls)} \ {Nil}
ClosedSets == {Calls[i].arg : i \in CallIdx("Close")}

\* Every prepared statement of the last operation has been dropped.
AllDropped ==
    \A i \in CallIdx("PrepareStmt") :
        Calls[i].err = NoErr =>
            \E j \in CallIdx("DropPreparedStmt") : j > i /\ Calls[j].arg = Calls[i].arg

\* C1: whenever Exec with arguments returns and PrepareStmt succeeded, the
\* prepared statement has been dropped, also when ExecutePreparedStmt
\* returned an error.
C1_PreparedAlwaysDropped == ExecWithArgs => AllDropped

\* C2: Exec without arguments executes the statements one at a time in parse
\* order (the n-th ExecuteStmt call is for statement n); once ExecuteStmt
\* returns an error no further statement is executed, and Exec returns that
\* error (with a nil record set).
C2_AbortAtFirstError ==
    ExecNoArgs =>
        /\ \A i \in CallIdx("ExecuteStmt") :
                Calls[i].arg = Cardinality({j \in CallIdx("ExecuteStmt") : j <= i})
        /\ \A i \in CallIdx("ExecuteStmt") :
                Calls[i].err # NoErr =>
                    /\ \A j \in CallIdx("ExecuteStmt") : j <= i
                    /\ last.err # NoErr
                    /\ Cause(last.err) = Cause(Calls[i].err)
                    /\ last.rs = Nil

\* C2 witness: a batch of two statements whose first statement failed.
C2_Witness ==
    /\ ExecNoArgs
    /\ Calls[1].arg = 2
    /\ \E i \in CallIdx("ExecuteStmt") : Calls[i].arg = 1 /\ Calls[i].err # NoErr

\* C3: when Exec without arguments executed a batch of n >= 1 statements
\* without error, it returns the record set ExecuteStmt returned for the
\* first statement.
C3_FirstRecordSet ==
    (ExecNoArgs /\ last.err = NoErr /\ Calls[1].arg >= 1) =>
        \E i \in CallIdx("ExecuteStmt") : Calls[i].arg = 1 /\ last.rs = Calls[i].rs

\* C3 witness: two statements, both with a record set, the first one returned.
C3_Witness ==
    /\ ExecNoArgs
    /\ last.err = NoErr
    /\ Calls[1].arg = 2
    /\ \A i \in CallIdx("ExecuteStmt") : Calls[i].rs # Nil
    /\ last.rs = 1

\* C4: when Parse returns an error, Exec without arguments calls ExecuteStmt
\* not once and returns a nil record set together with that error.
C4_ParseErrorNoExecution ==
    (ExecNoArgs /\ Calls[1].err # NoErr) =>
        /\ CallIdx("ExecuteStmt") = {}
        /\ last.rs = Nil
        /\ last.err # NoErr
        /\ Cause(last.err) = Cause(Calls[1].err)

\* C4 witness: Parse failed after it had parsed a statement.
C4_Witness == ExecNoArgs /\ Calls[1].err # NoErr /\ Calls[1].arg = 1

\* C5: the identifiers handed out by NewTestKit, RefreshSession and
\* RefreshConnectionID are strictly increasing in call order (so none is
\* handed out twice).
C5_IdsStrictlyIncreasing ==
    \A i, j \in 1..Len(assigned) : i < j => assigned[i] < assigned[j]

\* C5 witness: three identifiers handed out, the last by RefreshConnectionID,
\* two of them to new sessions.
C5_Witness ==
    /\ Len(assigned) = 3
    /\ last.op = "RefreshConnectionID"
    /\ nSess = 2
    /\ sessConn[tkSession[last.kit]] = 3

\* The instances that hold a session.
Holding == {k \in kits : tkSession[k] # Nil}
ConnOf(k) == sessConn[tkSession[k]]

\* C6 as stated: no two instances hold sessions with the same connection
\* identifier, SetSession included.
C6_UniquePerInstance ==
    \A k1, k2 \in Holding : k1 # k2 => ConnOf(k1) # ConnOf(k2)

\* C6 amended: two instances hold sessions with the same connection
\* identifier only if at least one of them got its current session from
\* SetSession; sessions made by NewTestKit and RefreshSession, refreshed or
\* not by RefreshConnectionID, have pairwise different identifiers.
C6_UniqueUnlessSetSession ==
    \A k1, k2 \in Holding :
        (k1 # k2 /\ ConnOf(k1) = ConnOf(k2)) => (viaSet[k1] \/ viaSet[k2])

\* C6 witness: two instances with sessions of their own, one of them with a
\* refreshed identifier.
C6_Witness ==
    /\ Holding = {1, 2}
    /\ ~viaSet[1] /\ ~viaSet[2]
    /\ tkSession[1] # tkSession[2]
    /\ last.op = "RefreshConnectionID"
    /\ Len(assigned) = 3

\* C7: on every exit of Exec, ExecToErr, MustExec and QueryToErr every
\* record set the session handed out has been closed or is the one returned
\* to the caller.
C7_NoRecordSetLeft ==
    last.op \in {"Exec", "ExecToErr", "MustExec", "QueryToErr"} =>
        \A rs \in Handed :
            rs \in ClosedSets \/ (last.outcome = "returned" /\ last.rs = rs)

\* C8: when no call MustExec makes on the session returns an error, MustExec
\* does not fail the test, every record set produced is closed and every
\* prepared statement is dropped.
C8_MustExecReleases ==
    (last.op = "MustExec" /\ \A i \in 1..Len(Calls) : Calls[i].err = NoErr) =>
        /\ last.outcome = "returned"
        /\ Handed \subseteq ClosedSets
        /\ AllDropped

\* The error the session answered in the last operation.
FailedCalls == {i \in 1..Len(Calls) : Calls[i].op # "AppendError" /\ Calls[i].err # NoErr}
SessionErr == Calls[CHOOSE i \in FailedCalls : TRUE].err

\* C9: when the execution returns an error, MustGetErrCode passes exactly
\* when the cause of that error is a *terror.Error whose SQL error code is
\* the expected code.
C9_ErrCodeIff ==
    (last.op = "MustGetErrCode" /\ FailedCalls # {}) =>
        (last.outcome = "returned"
            <=> (SessionErr.root = "terror" /\ ToSQLError(SessionErr) = last.code))

\* C9 witness: the second statement of a batch failed with an error that
\* already carried a stack, and the expected code matched.
C9_Witness ==
    /\ last.op = "MustGetErrCode"
    /\ last.outcome = "returned"
    /\ \E i \in FailedCalls : Calls[i].op = "ExecuteStmt" /\ Calls[i].arg = 2 /\ Calls[i].err.stack

\* What QueryToErr makes of the record set rs that Exec returned: it is
\* streamed, then closed, and the streaming error is what the caller gets.
StreamedAndClosed(rs) ==
    \E i \in CallIdx("GetRows4Test"), j \in CallIdx("Close") :
        /\ i < j
        /\ Calls[i].arg = rs /\ Calls[j].arg = rs
        /\ last.err = Calls[i].err

\* C10 as stated: an error of the execution fails the test and nothing is
\* returned; when the execution succeeds with a record set, QueryToErr
\* returns the streaming error and the record set has been closed.
C10_QueryToErrReturnsStreamError ==
    last.op = "QueryToErr" =>
        /\ last.exec.err # NoErr => (last.outcome = "fatal" /\ last.err = NoErr)
        /\ (last.exec.err = NoErr /\ last.exec.rs # Nil) =>
                (last.outcome = "returned" /\ StreamedAndClosed(last.exec.rs))

\* C10 amended: as stated, provided Close returns no error; when Close
\* returns an error the test is failed and nothing is returned.
C10_QueryToErrUnlessCloseFails ==
    last.op = "QueryToErr" =>
        /\ last.exec.err # NoErr => (last.outcome = "fatal" /\ last.err = NoErr)
        /\ (last.exec.err = NoErr /\ last.exec.rs # Nil) =>
                IF \E j \in CallIdx("Close") : Calls[j].err # NoErr
                THEN last.outcome = "fatal" /\ last.err = NoErr
                ELSE last.outcome = "returned" /\ StreamedAndClosed(last.exec.rs)

\* C10 witness: the execution succeeded, streaming failed, and the caller
\* got the streaming error.
C10_Witness ==
    /\ last.op = "QueryToErr"
    /\ last.outcome = "returned"
    /\ last.exec.err = NoErr
    /\ last.err # NoErr

\* C11 as stated: the cause of every error Exec returns is the very value
\* the session returned.
C11_CauseIsSessionValue ==
    (last.op = "Exec" /\ last.err # NoErr) =>
        (FailedCalls # {} /\ Cause(last.err) = SessionErr)

\* C11 amended: Exec returns an error exactly when a session call returned
\* one, and the two have the same cause; the cause is the very value the
\* session returned when that value carries no stack of its own.
C11_CausePreserved ==
    last.op = "Exec" =>
        /\ last.err # NoErr <=> FailedCalls # {}
        /\ last.err # NoErr =>
            /\ Cause(last.err) = Cause(SessionErr)
            /\ ~SessionErr.stack => Cause(last.err) = SessionErr

\* C11 witness: DropPreparedStmt returned a bare *terror.Error and Exec
\* returned it with a stack.
C11_Witness ==
    /\ last.op = "Exec"
    /\ \E i \in FailedCalls :
        /\ Calls[i].op = "DropPreparedStmt"
        /\ Calls[i].err.root = "terror"
        /\ ~Calls[i].err.stack
    /\ last.err.stack

\* C16: Exec never returns a record set together with an error.
C16_NoRecordSetWithError ==
    (last.op = "Exec" /\ last.err # NoErr) => last.rs = Nil

\* C16 witness: the first statement handed out a record set, the second
\* failed, and Exec returned the error alone.
C16_Witness ==
    /\ last.op = "Exec"
    /\ last.err # NoErr
    /\ \E i \in CallIdx("ExecuteStmt") : Calls[i].arg = 1 /\ Calls[i].rs # Nil
    /\ last.rs = Nil

\* f occurs in s as a substring.
Within(f, s) ==
    \E a \in 0..Len(s), b \in 0..Len(s) :
        a <= b /\ f = [n \in 1..(b - a) |-> s[a + n]]

\* The rows ResultSetToStringSlice answered in the last operation, if it
\* was asked and answered without error.
Converted == {i \in CallIdx("ResultSetToStringSlice") : Calls[i].err = NoErr}
QueryRows == IF Converted = {} THEN <<>> ELSE Calls[CHOOSE i \in Converted : TRUE].data
ReturnedTrue == last.outcome = "returned" /\ last.val
ReturnedFalse == last.outcome = "returned" /\ ~last.val

\* C12: HasPlan returns true exactly when some row of the explain result
\* has the fragment as a substring of its first column, and false when the
\* explain result has no rows.
C12_HasPlanIff ==
    last.op = "HasPlan" =>
        /\ ReturnedTrue <=>
            \E i \in 1..Len(QueryRows) : Within(last.frag, QueryRows[i][1])
        /\ (Converted # {} /\ QueryRows = <<>>) => ReturnedFalse

\* C12 witness: the fragment is in the second row only, HasPlan returned
\* true.
C12_Witness ==
    /\ last.op = "HasPlan"
    /\ ReturnedTrue
    /\ Len(QueryRows) = 2
    /\ ~Within(last.frag, QueryRows[1][1])

\* Row i of the explain result has "index:<index>" in its 4th column.
UsesIndex(i) ==
    Len(QueryRows[i]) >= 4 /\ Within(<<"i", "n", "d", "e", "x", ":">> \o last.frag, QueryRows[i][4])

\* C13 as stated: MustUseIndex returns true exactly when some row of the
\* explain result has "index:<index>" in its 4th column, and returns false
\* when no row matches.
C13_MustUseIndexIff ==
    last.op = "MustUseIndex" =>
        /\ ReturnedTrue <=> \E i \in 1..Len(QueryRows) : UsesIndex(i)
        /\ (Converted # {} /\ \A i \in 1..Len(QueryRows) : ~UsesIndex(i)) => ReturnedFalse

\* C13 amended: as stated when every row has four columns; an explain
\* result whose rows have fewer columns makes MustUseIndex panic on its
\* first row.
C13_MustUseIndexIffWide ==
    last.op = "MustUseIndex" =>
        /\ ReturnedTrue <=> \E i \in 1..Len(QueryRows) : UsesIndex(i)
        /\ (Converted # {} /\ \A i \in 1..Len(QueryRows) : ~UsesIndex(i)) =>
                IF \A i \in 1..Len(QueryRows) : Len(QueryRows[i]) >= 4
                THEN ReturnedFalse
                ELSE last.outcome = "panic"

\* C13 witness: the rows name another index with the same first letter, and
\* MustUseIndex returned false.
C13_Witness ==
    /\ last.op = "MustUseIndex"
    /\ ReturnedFalse
    /\ last.frag = <<"b">>
    /\ \E i \in 1..Len(QueryRows) : QueryRows[i] = IndexRow

\* C15 as stated: MustQuery fails the test when Exec returns an error or a
\* nil record set, and otherwise returns a Result with the rows streamed
\* from the record set Exec returned.
C15_MustQueryResult ==
    last.op = "MustQuery" =>
        /\ (last.exec.err # NoErr \/ last.exec.rs = Nil) => last.outcome = "fatal"
        /\ (last.exec.err = NoErr /\ last.exec.rs # Nil) =>
            /\ last.outcome = "returned"
            /\ \E i \in Converted : Calls[i].arg = last.exec.rs /\ last.rows = Calls[i].data

\* C15 amended: as stated, provided streaming the rows returns no error;
\* a streaming error fails the test.
C15_MustQueryUnlessStreamFails ==
    last.op = "MustQuery" =>
        /\ (last.exec.err # NoErr \/ last.exec.rs = Nil) => last.outcome = "fatal"
        /\ (last.exec.err = NoErr /\ last.exec.rs # Nil) =>
            IF Converted = {} THEN last.outcome = "fatal"
            ELSE /\ last.outcome = "returned"
                 /\ \E i \in Converted :
                        Calls[i].arg = last.exec.rs /\ last.rows = Calls[i].data

\* C15 witness: the first of two statements handed out the record set, and
\* MustQuery returned its two rows.
C15_Witness ==
    /\ last.op = "MustQuery"
    /\ last.outcome = "returned"
    /\ Len(last.rows) = 2
    /\ \E i \in CallIdx("Parse") : Calls[i].arg = 2

\* The warnings W that parsing added in the last Exec call: what the
\* statement context held after Parse beyond what it held before the call.
ParseAdded ==
    LET parse == Calls[CHOOSE i \in CallIdx("Parse") : TRUE]
    IN  SubSeq(parse.data, Len(last.warns.prev) + 1, Len(parse.data))

\* sub is contained in list, in order.
RECURSIVE ContainedInOrder(_, _)
ContainedInOrder(sub, list) ==
    IF sub = <<>> THEN TRUE
    ELSE IF list = <<>> THEN FALSE
    ELSE IF Head(sub) = Head(list) THEN ContainedInOrder(Tail(sub), Tail(list))
    ELSE ContainedInOrder(sub, Tail(list))

\* C14: when Exec without arguments returns, the warnings that parsing
\* added are in the session's current statement warning list, in parse
\* order, also when a statement failed after a successful parse.
C14_ParserWarningsKept ==
    (last.op = "Exec" /\ ExecNoArgs /\ ParseAdded # <<>>) =>
        ContainedInOrder(ParseAdded, last.warns.final)

\* The calls of the goroutines that obtained an identifier: the completed
\* ones, and the ones between Inc and their return.
IdCalls ==
    {c \in Kits \X (1..MaxIDs) :
        \/ c[2] <= Len(procs[c[1]].made)
        \/ c[2] = Len(procs[c[1]].made) + 1 /\ procs[c[1]].pc \in {"incremented", "set"}}
IdOf(c) ==
    IF c[2] <= Len(procs[c[1]].made) THEN procs[c[1]].made[c[2]].id ELSE procs[c[1]].id
AllIdle == \A g \in Kits : procs[g].pc = "idle"

\* C17: with NewTestKit, RefreshSession and RefreshConnectionID running in
\* several goroutines, in every interleaving two calls never obtain the same
\* connection identifier, no call obtains zero, and once every call has
\* returned the counter equals the number of calls that assigned an
\* identifier.
C17_ConcurrentIdsDistinct ==
    /\ \A c, d \in IdCalls : c # d => IdOf(c) # IdOf(d)
    /\ \A c \in IdCalls : IdOf(c) >= 1
    /\ AllIdle => idGen = Cardinality(IdCalls)

\* C17 witness: every call has returned, MaxIDs identifiers were assigned,
\* and of two sessions made by different goroutines the one created first
\* has the larger identifier: the calls overlapped.
C17_Witness ==
    /\ AllIdle
    /\ idGen = MaxIDs
    /\ \E g, h \in Kits : \E m \in 1..Len(procs[g].made), n \in 1..Len(procs[h].made) :
        LET a == procs[g].made[m]
            b == procs[h].made[n]
        IN  /\ g # h
            /\ a.op # "RefreshConnectionID" /\ b.op # "RefreshConnectionID"
            /\ a.se < b.se
            /\ a.id > b.id

====
